---- MODULE Spec2Model ----
(***************************************************************************)
(* FaceSorter: the identity matcher (face_recognition/matching.py), the    *)
(* collision-safe naming (utils/file_ops.py) and the batch orchestrator    *)
(* with its checksum-verified copy/move (image/sorting.py).                *)
(*                                                                         *)
(* Units.  A face distance is an integer number of tenths (5 is 0.5).  A   *)
(* confidence is an integer number of twentieths, so that 1 - d is         *)
(* 2 * (10 - d) and the halving of the age adjustment stays exact.         *)
(*                                                                         *)
(* Files.  A file name is a record [base, kind, n]: kind "plain" is        *)
(* base.ext, kind "num" is base_n.ext and kind "ts" is base_<timestamp     *)
(* n>.ext.  A path is [dir, name].  A file's content is [data, state]:     *)
(* data names the bytes (the source file they come from, 0 for a file that *)
(* was there before the run), state is "intact", "partial" (shorter) or    *)
(* "corrupt" (same length, other bytes).                                   *)
(***************************************************************************)
EXTENDS Integers, Sequences, FiniteSets, TLC

VARIABLES
    \* ---- arguments of sort_images and the file system it starts from
    image_files,        \* the enumerated input paths, in list order
    known_face_names,   \* enrolled identities, in enrollment order
    priority_list,
    move_files,
    batch_size,
    cache_dir,          \* TRUE: a cache directory is configured
    \* ---- the file system
    srcFS,              \* source tree: path -> content
    destFS,             \* destination tree: path -> content
    cache_file,         \* face_encodings_cache_<model>.npz: hash -> entry
    audit,              \* rows written to FILE_MOVE_LOG_<ts>.csv
    file_ops_open,      \* the audit log's file handle is open
    placements,         \* the placements attempted, in order: source,
                        \* destination, person, result, the message logged
                        \* (step) and the failures met (env)
    now,                \* the clock, in seconds (time.strftime)
    \* ---- sort_images
    pc,
    stats,
    batch_idx,
    batch_data,         \* the decoded images of the current batch (paths)
    warned,             \* the statistics-mismatch warning was logged
    returned,           \* the dictionary sort_images returned
    \* ---- process_image_batch (the call in flight)
    results,
    encoding_cache,
    new_cache_entries,
    valid_paths,
    valid_hashes,
    pos,                \* index of the loop the call is in
    raised,             \* the call ended by raising
    \* ---- bookkeeping of the environment
    faults,             \* environment failures injected so far
    failures,           \* the decode, cache and vision calls that failed
                        \* and the calls of process_image_batch that raised:
                        \* <<call, batch, position in the batch>>
    no_face,            \* images in which detection found no face, so far
    cache_writes,       \* times the cache file was written, so far
    batched,            \* the batches the for loop went through, so far
    \* ---- find_best_match, applied to drawn inputs
    m_in,
    m_out

sortVars == <<image_files, known_face_names, priority_list, move_files,
              batch_size, cache_dir, srcFS, destFS, cache_file, audit,
              file_ops_open, placements, now, pc, stats, batch_idx, batch_data,
              warned, returned, results, encoding_cache, new_cache_entries,
              valid_paths, valid_hashes, pos, raised, faults,
              failures, no_face, cache_writes, batched>>
matchVars == <<m_in, m_out>>
vars == <<sortVars, matchVars>>

(***************************************************************************)
(* Bounds of the model.                                                    *)
(***************************************************************************)
MaxFiles == 2       \* input files of a run
MaxBatchSize == 2   \* configured batch sizes 1..MaxBatchSize
MaxFaces == 2       \* faces detected in one image
MaxFaults == 1      \* environment failures in one run
MaxTime == 1        \* seconds the clock can advance during a run
MaxDist == 7        \* face distances 0..MaxDist tenths are drawn
FlushPeriod == 2    \* sort_images flushes its logs when start_idx +
                    \* len(batch_results) is a multiple of 100 (line 650);
                    \* the model scales that period to its file counts

(***************************************************************************)
(* Program constants.                                                      *)
(***************************************************************************)
DEFAULT_TOLERANCE == 6
CHILDREN_TOLERANCE == 5
SuffixLimit == 10000

None == "None"

Min(S) == CHOOSE x \in S : \A y \in S : x <= y
Range(s) == {s[i] : i \in 1..Len(s)}
IndexOf(s, x) == Min({i \in 1..Len(s) : s[i] = x})

(***************************************************************************)
(* face_recognition/matching.py                                            *)
(*                                                                         *)
(* A face encoding is modelled by what the matcher reads of it: for every  *)
(* identity, the sequence of its distances to that identity's enrollment   *)
(* embeddings (face_distance of known_face_encodings[person]).             *)
(***************************************************************************)
Confidence(d) == 2 * (10 - d)      \* 1.0 - d, in twentieths

\* a comparison that rejects a distance equal to the tolerance
compare_strictly(face_distances, tolerance) ==
    IF Len(face_distances) = 0 THEN <<(<<>>), (<<>>)>>
    ELSE <<[i \in 1..Len(face_distances) |-> face_distances[i] < tolerance],
           face_distances>>

\* compare_face_encodings_vectorized: <<matches, face_distances>>
compare_face_encodings_vectorized(face_distances, tolerance) ==
    IF Len(face_distances) = 0 THEN <<(<<>>), (<<>>)>>
    ELSE <<[i \in 1..Len(face_distances) |-> face_distances[i] <= tolerance],
           face_distances>>

any(matches) == \E i \in 1..Len(matches) : matches[i]

\* a descending sort in which, of equal keys, the later element comes first
RECURSIVE SortDescendingLastFirst(_)
SortDescendingLastFirst(s) ==
    IF s = <<>> THEN <<>>
    ELSE LET ties == {i \in 1..Len(s) : \A j \in 1..Len(s) : s[j][2] <= s[i][2]}
             top == CHOOSE i \in ties : \A j \in ties : j <= i
         IN <<s[top]>> \o SortDescendingLastFirst(SubSeq(s, 1, top - 1)
                                                   \o SubSeq(s, top + 1, Len(s)))

\* list.sort(key, reverse=True): descending, equal keys keep their order
RECURSIVE SortDescending(_)
SortDescending(s) ==
    IF s = <<>> THEN <<>>
    ELSE LET top == Min({i \in 1..Len(s) : \A j \in 1..Len(s) : s[j][2] <= s[i][2]})
         IN <<s[top]>> \o SortDescending(SubSeq(s, 1, top - 1) \o SubSeq(s, top + 1, Len(s)))

\* no sort by priority: the candidates stay in order of confidence
KeepConfidenceOrder(s, prio) == s

\* list.sort(key=priority_list.index): ascending, equal keys keep their order
RECURSIVE SortByPriority(_, _)
SortByPriority(s, prio) ==
    IF s = <<>> THEN <<>>
    ELSE LET key(x) == IF x[1] \in Range(prio) THEN IndexOf(prio, x[1]) - 1 ELSE Len(prio)
             top == Min({i \in 1..Len(s) : \A j \in 1..Len(s) : key(s[i]) <= key(s[j])})
         IN <<s[top]>> \o SortByPriority(SubSeq(s, 1, top - 1) \o SubSeq(s, top + 1, Len(s)), prio)

\* calculate_age: whole years between the birthdate and the photo date; a
\* birthdate of -1 is a string strptime rejects.  <<known, age>>
calculate_age(birthdate, photo_date) ==
    IF birthdate = 0 \/ photo_date = 0 THEN <<FALSE, 0>>
    ELSE IF birthdate < 0 THEN <<FALSE, 0>>
    ELSE <<TRUE, photo_date - birthdate>>

\* lines 75-107: the confidence of one candidate after the age adjustment
AgeAdjusted(confidence, person_name, photo_date, age) ==
    IF age.age_based_matching /\ photo_date # 0 /\ DOMAIN age.birthdates # {}
       /\ person_name \in DOMAIN age.birthdates
       /\ age.birthdates[person_name] # 0
    THEN LET a == calculate_age(age.birthdates[person_name], photo_date)
             person_age == a[2]
             effective_tolerance == IF person_age < 10 THEN age.age_tolerance + 2
                                    ELSE age.age_tolerance
             lo == IF person_age - effective_tolerance > 0
                   THEN person_age - effective_tolerance ELSE 0
             hi == person_age + effective_tolerance + 1
         IN IF a[1] /\ ~(lo <= person_age /\ person_age < hi)
            THEN confidence \div 2 ELSE confidence
    ELSE confidence

\* candidates whose age adjustment applies are dropped instead of halved
RECURSIVE CandidatesAgeFiltered(_, _, _, _, _)
CandidatesAgeFiltered(face_encoding, names, tolerance, photo_date, age) ==
    IF names = <<>> THEN <<>>
    ELSE LET person_name == Head(names)
             cmp == compare_face_encodings_vectorized(face_encoding[person_name], tolerance)
             confidence == Confidence(Min(Range(cmp[2])))
             rest == CandidatesAgeFiltered(face_encoding, Tail(names), tolerance,
                                           photo_date, age)
         IN IF any(cmp[1])
               /\ AgeAdjusted(confidence, person_name, photo_date, age) = confidence
            THEN <<<<person_name, confidence>>>> \o rest
            ELSE rest

\* lines 57-109: the candidates, in enrollment order
RECURSIVE Candidates(_, _, _, _, _)
Candidates(face_encoding, names, tolerance, photo_date, age) ==
    IF names = <<>> THEN <<>>
    ELSE LET person_name == Head(names)
             cmp == compare_face_encodings_vectorized(face_encoding[person_name], tolerance)
             rest == Candidates(face_encoding, Tail(names), tolerance, photo_date, age)
         IN IF any(cmp[1])
            THEN <<<<person_name,
                     AgeAdjusted(Confidence(Min(Range(cmp[2]))), person_name, photo_date, age)>>>>
                 \o rest
            ELSE rest

\* a matcher that skips the priority filter of lines 120-129 and returns the
\* most confident candidate
find_most_confident(face_encoding, names, tolerance, prio, age) ==
    LET photo_date == IF age.age_based_matching /\ age.image_path
                         /\ DOMAIN age.birthdates # {}
                      THEN age.photo_date ELSE 0
        found_persons == SortDescending(
            Candidates(face_encoding, names, tolerance, photo_date, age))
    IN IF found_persons = <<>> THEN <<None, 0>> ELSE found_persons[1]

\* find_best_match: <<best_match, confidence>>, or <<None, 0>>
find_best_match(face_encoding, names, tolerance, prio, age) ==
    LET photo_date == IF age.age_based_matching /\ age.image_path
                         /\ DOMAIN age.birthdates # {}
                      THEN age.photo_date ELSE 0
        found_persons == SortDescending(
            Candidates(face_encoding, names, tolerance, photo_date, age))
        priority_matches == SelectSeq(found_persons, LAMBDA p : p[1] \in Range(prio))
    IN IF found_persons = <<>> THEN <<None, 0>>
       ELSE IF prio # <<>>
            THEN IF priority_matches = <<>> THEN <<None, 0>>
                 ELSE SortByPriority(priority_matches, prio)[1]
            ELSE found_persons[1]

(***************************************************************************)
(* image/sorting.py, lines 164-224: the matching process_image_batch does  *)
(* itself for the faces of one image.                                      *)
(***************************************************************************)
\* lines 168-182: <<best_match, highest_confidence>> of one face
RECURSIVE BestOfFace(_, _, _, _, _)
BestOfFace(face_encoding, names, tolerance, best_match, highest_confidence) ==
    IF names = <<>> THEN <<best_match, highest_confidence>>
    ELSE LET person_name == Head(names)
             cmp == compare_face_encodings_vectorized(face_encoding[person_name], tolerance)
             closer == any(cmp[1])
                       /\ 2 * Min(Range(cmp[2])) < 20 - highest_confidence
         IN IF closer
            THEN BestOfFace(face_encoding, Tail(names), tolerance,
                            person_name, Confidence(Min(Range(cmp[2]))))
            ELSE BestOfFace(face_encoding, Tail(names), tolerance,
                            best_match, highest_confidence)

\* lines 166-185: found_persons over the faces of the image
RECURSIVE FoundPersons(_, _, _)
FoundPersons(face_encodings, names, tolerance) ==
    IF face_encodings = <<>> THEN <<>>
    ELSE LET b == BestOfFace(Head(face_encodings), names, tolerance, None, -20)
             rest == FoundPersons(Tail(face_encodings), names, tolerance)
         IN IF b[1] # None THEN <<b>> \o rest ELSE rest

\* lines 164-224: [matched, best_person, confidence, highest_confidence];
\* highest_confidence is the variable as the loop over the faces leaves it,
\* that of the last face
ResolveImage(face_encodings, names, tolerance, prio) ==
    LET found_persons == SortDescending(FoundPersons(face_encodings, names, tolerance))
        priority_matches == SelectSeq(found_persons, LAMBDA p : p[1] \in Range(prio))
        last == IF face_encodings = <<>> THEN <<None, -20>>
                ELSE BestOfFace(face_encodings[Len(face_encodings)], names,
                                tolerance, None, -20)
        chosen == IF prio # <<>> THEN SortByPriority(priority_matches, prio)[1]
                  ELSE found_persons[1]
    IN IF found_persons = <<>> \/ (prio # <<>> /\ priority_matches = <<>>)
       THEN [matched |-> FALSE, best_person |-> None, confidence |-> 0,
             highest_confidence |-> last[2]]
       ELSE [matched |-> TRUE, best_person |-> chosen[1], confidence |-> chosen[2],
             highest_confidence |-> last[2]]

(***************************************************************************)
(* utils/file_ops.py                                                       *)
(***************************************************************************)
Plain(b) == [base |-> b, kind |-> "plain", n |-> 0]
Num(b, k) == [base |-> b, kind |-> "num", n |-> k]
Stamp(b, t) == [base |-> b, kind |-> "ts", n |-> t]
Path(d, nm) == [dir |-> d, name |-> nm]

exists(fs, path) == path \in DOMAIN fs

\* os.path.getsize and the MD5 of a content
getsize(content) == <<content.data, content.state = "partial">>
md5(content) == <<content.data, content.state>>

\* get_image_hash: a key of path, size and mtime; 0 is None
get_image_hash(fs, image_path) ==
    IF ~exists(fs, image_path) THEN 0 ELSE image_path.dir

\* compute_file_checksum: <<computed, checksum>>; readable says whether the
\* file could be opened and read
compute_file_checksum(fs, file_path, readable) ==
    IF ~exists(fs, file_path) THEN <<FALSE, <<0, "">> >>
    ELSE IF ~readable THEN <<FALSE, <<0, "">> >>
    ELSE <<TRUE, md5(fs[file_path])>>

\* lines 84-106: the loop over the numeric suffixes
RECURSIVE ProbeSuffix(_, _, _, _, _)
ProbeSuffix(fs, directory, base_name, counter, timestamp) ==
    IF ~exists(fs, Path(directory, Num(base_name, counter)))
    THEN Path(directory, Num(base_name, counter))
    ELSE IF counter + 1 > SuffixLimit
         THEN Path(directory, Stamp(base_name, timestamp))
         ELSE ProbeSuffix(fs, directory, base_name, counter + 1, timestamp)

\* lines 84-106: the values of counter whose names the loop tests
RECURSIVE ProbedSuffixes(_, _, _, _)
ProbedSuffixes(fs, directory, base_name, counter) ==
    IF ~exists(fs, Path(directory, Num(base_name, counter)))
       \/ counter + 1 > SuffixLimit
    THEN {counter}
    ELSE {counter} \cup ProbedSuffixes(fs, directory, base_name, counter + 1)

\* lines 76-81: the suffix the numbering starts at
start_suffix(filename) == IF filename.kind = "num" THEN filename.n + 1 ELSE 1

\* generate_unique_filename; timestamp is what time.strftime returns if asked
generate_unique_filename(fs, destination_path, timestamp) ==
    IF ~exists(fs, destination_path) THEN destination_path
    ELSE LET filename == destination_path.name
         IN ProbeSuffix(fs, destination_path.dir, filename.base,
                        start_suffix(filename), timestamp)

\* the call reads the clock
UsesClock(fs, destination_path) ==
    generate_unique_filename(fs, destination_path, 0).name.kind = "ts"

(***************************************************************************)
(* The environment of one placement.  copy is what shutil.copy2 does:      *)
(* "ok", "raise" (nothing written), "raise_partial" (a shorter file left), *)
(* "missing" (returns, no file), "short" or "corrupt" (returns, the file   *)
(* written differs).  faults are the other calls that fail:                *)
(*   readonly        os.access(dir, W_OK) is false                         *)
(*   audit1, audit2  log_file_operation raises (first row, FAILED row)     *)
(*   src_unreadable  compute_file_checksum(source) returns None            *)
(*   dst_unreadable  compute_file_checksum(destination) returns None       *)
(*   cleanup         os.remove(destination) raises                         *)
(*   remove_src      os.remove(source) raises                              *)
(***************************************************************************)
CopyOutcomes == {"ok", "raise", "raise_partial", "missing", "short", "corrupt"}
PlaceFaults == {"readonly", "audit1", "audit2", "src_unreadable",
                "dst_unreadable", "cleanup", "remove_src"}
PlaceEnvs == [copy : CopyOutcomes, faults : SUBSET PlaceFaults]
CopyHit(env) == IF env.copy = "ok" THEN {} ELSE {"copy"}

EmptyFS == [q \in {} |-> 0]
Put(fs, path, content) == (path :> content) @@ fs
Remove(fs, path) == [q \in DOMAIN fs \ {path} |-> fs[q]]

\* shutil.copy2: the destination tree afterwards
copy2(sfs, dfs, src, dst, outcome) ==
    CASE outcome = "ok" -> Put(dfs, dst, sfs[src])
      [] outcome \in {"raise", "missing"} -> dfs
      [] outcome \in {"raise_partial", "short"} ->
             Put(dfs, dst, [data |-> sfs[src].data, state |-> "partial"])
      [] outcome = "corrupt" ->
             Put(dfs, dst, [data |-> sfs[src].data, state |-> "corrupt"])
copy2_raises(outcome) == outcome \in {"raise", "raise_partial"}

\* log_file_operation: the row written, without its timestamp, file size,
\* checksum and confidence columns (the confidence passed at lines 266, 338,
\* 356 and 373 is ResolveImage's highest_confidence)
log_file_operation(operation, source_path, destination_path, person, status) ==
    [operation |-> operation, source |-> source_path, destination |-> destination_path,
     person |-> person, status |-> status]

\* What one placement did: result is the tuple appended to results, step the
\* message logged, cached whether line 379 was reached, hit the failures of
\* the environment the placement ran into.
Placed(ok, person, sfs, dfs, rows, step, cached, hit) ==
    [result |-> <<ok, person>>, sfs |-> sfs, dfs |-> dfs, rows |-> rows,
     step |-> step, cached |-> cached, hit |-> hit]

\* lines 295-298 and 307-310: os.remove(destination), errors swallowed
Cleanup(dfs, destination, env) ==
    IF "cleanup" \in env.faults THEN dfs ELSE Remove(dfs, destination)

\* lines 328-342 and 363-377: the except clause of a placement; when the
\* FAILED row cannot be written the exception reaches line 384
PlaceHandler(operation, sfs, dfs, img_path, destination, best_person, rows, hit, env) ==
    IF "audit2" \in env.faults
    THEN Placed(FALSE, None, sfs, dfs, rows, "Error processing", FALSE, hit \cup {"audit2"})
    ELSE Placed(FALSE, None, sfs, dfs,
                rows \o <<log_file_operation(operation, img_path, destination,
                                             best_person, "FAILED")>>,
                IF operation = "MOVE" THEN "Error in move operation"
                ELSE "Failed to copy file", FALSE, hit)

\* a move that removes the original as soon as the copy returned, without
\* the checks of lines 286-312
RemoveUnverified(sfs, dfs, img_path, destination, best_person, source_checksum, rows, env) ==
    Placed(TRUE, best_person, Remove(sfs, img_path), dfs, rows,
           "Successfully moved", TRUE, CopyHit(env))

\* a move that reports failure when the original cannot be removed
RemoveFailureFails(sfs, dfs, img_path, destination, best_person, source_checksum, rows, env) ==
    LET hit == CopyHit(env) IN
    IF ~exists(dfs, destination)
    THEN Placed(FALSE, None, sfs, dfs, rows,
                "Destination file does not exist after copy", FALSE, hit)
    ELSE IF getsize(dfs[destination]) # getsize(sfs[img_path])
    THEN Placed(FALSE, None, sfs, Cleanup(dfs, destination, env), rows,
                "File size mismatch after copy", FALSE,
                hit \cup (env.faults \cap {"cleanup"}))
    ELSE LET dest_checksum ==
                 compute_file_checksum(dfs, destination, "dst_unreadable" \notin env.faults)
         IN IF ~dest_checksum[1] \/ dest_checksum[2] # source_checksum
            THEN Placed(FALSE, None, sfs, Cleanup(dfs, destination, env), rows,
                        "Checksum verification failed", FALSE,
                        hit \cup (env.faults \cap {"cleanup", "dst_unreadable"}))
            ELSE IF "remove_src" \in env.faults
            THEN Placed(FALSE, None, sfs, dfs, rows,
                        "Original file could not be removed", FALSE,
                        hit \cup {"remove_src"})
            ELSE Placed(TRUE, best_person, Remove(sfs, img_path), dfs, rows,
                        "Successfully moved", TRUE, hit)

\* lines 285-326: verification of the copy, then removal of the original
VerifyAndRemove(sfs, dfs, img_path, destination, best_person, source_checksum, rows, env) ==
    LET hit == CopyHit(env) IN
    IF ~exists(dfs, destination)
    THEN Placed(FALSE, None, sfs, dfs, rows,
                "Destination file does not exist after copy", FALSE, hit)
    ELSE IF getsize(dfs[destination]) # getsize(sfs[img_path])
    THEN Placed(FALSE, None, sfs, Cleanup(dfs, destination, env), rows,
                "File size mismatch after copy", FALSE,
                hit \cup (env.faults \cap {"cleanup"}))
    ELSE LET dest_checksum ==
                 compute_file_checksum(dfs, destination, "dst_unreadable" \notin env.faults)
         IN IF ~dest_checksum[1] \/ dest_checksum[2] # source_checksum
            THEN Placed(FALSE, None, sfs, Cleanup(dfs, destination, env), rows,
                        "Checksum verification failed", FALSE,
                        hit \cup (env.faults \cap {"cleanup", "dst_unreadable"}))
            ELSE IF "remove_src" \in env.faults
            THEN Placed(TRUE, best_person, sfs, dfs, rows,
                        "Original file could not be removed", FALSE,
                        hit \cup {"remove_src"})
            ELSE Placed(TRUE, best_person, Remove(sfs, img_path), dfs, rows,
                        "Successfully moved", TRUE, hit)

\* lines 242-342: the move
MoveFile(sfs, dfs, img_path, destination, best_person, env) ==
    IF ~exists(sfs, img_path)
    THEN PlaceHandler("MOVE", sfs, dfs, img_path, destination, best_person,
                      <<>>, {}, env)
    ELSE IF "readonly" \in env.faults
    THEN PlaceHandler("MOVE", sfs, dfs, img_path, destination, best_person,
                      <<>>, {"readonly"}, env)
    ELSE IF "audit1" \in env.faults
    THEN PlaceHandler("MOVE", sfs, dfs, img_path, destination, best_person,
                      <<>>, {"audit1"}, env)
    ELSE LET rows == <<log_file_operation("MOVE", img_path, destination,
                                          best_person, "SUCCESS")>>
             source_checksum ==
                 compute_file_checksum(sfs, img_path, "src_unreadable" \notin env.faults)
         IN IF ~source_checksum[1]
            THEN Placed(FALSE, None, sfs, dfs, rows,
                        "Could not compute checksum for source file", FALSE,
                        {"src_unreadable"})
            ELSE IF copy2_raises(env.copy)
            THEN Placed(FALSE, None, sfs, copy2(sfs, dfs, img_path, destination, env.copy),
                        rows, "Failed to copy file", FALSE, CopyHit(env))
            ELSE VerifyAndRemove(sfs, copy2(sfs, dfs, img_path, destination, env.copy),
                                 img_path, destination, best_person,
                                 source_checksum[2], rows, env)

\* a copy that removes its source once the destination is written
CopyFileRemovingSource(sfs, dfs, img_path, destination, best_person, env) ==
    IF env.faults = {} /\ env.copy = "ok" /\ exists(sfs, img_path)
    THEN Placed(TRUE, best_person, Remove(sfs, img_path),
                copy2(sfs, dfs, img_path, destination, env.copy),
                <<log_file_operation("COPY", img_path, destination,
                                     best_person, "SUCCESS")>>,
                "Copied", TRUE, {})
    ELSE Placed(FALSE, None, sfs, dfs, <<>>, "Failed to copy file", FALSE,
                env.faults \cup CopyHit(env))

\* lines 343-377: the copy
CopyFile(sfs, dfs, img_path, destination, best_person, env) ==
    IF "audit1" \in env.faults
    THEN PlaceHandler("COPY", sfs, dfs, img_path, destination, best_person,
                      <<>>, {"audit1"}, env)
    ELSE LET rows == <<log_file_operation("COPY", img_path, destination,
                                          best_person, "SUCCESS")>>
         IN IF ~exists(sfs, img_path) \/ copy2_raises(env.copy)
            THEN PlaceHandler("COPY", sfs,
                              IF exists(sfs, img_path)
                              THEN copy2(sfs, dfs, img_path, destination, env.copy)
                              ELSE dfs,
                              img_path, destination, best_person, rows,
                              CopyHit(env), env)
            ELSE Placed(TRUE, best_person, sfs,
                        copy2(sfs, dfs, img_path, destination, env.copy),
                        rows, "Copied", TRUE, CopyHit(env))

\* lines 242-377
PlaceFile(move, sfs, dfs, img_path, destination, best_person, env) ==
    IF move THEN MoveFile(sfs, dfs, img_path, destination, best_person, env)
    ELSE CopyFile(sfs, dfs, img_path, destination, best_person, env)

\* the failures env names are exactly those the placement ran into
EnvExact(env, placed) == placed.hit = env.faults \cup CopyHit(env)

(***************************************************************************)
(* Inputs of a run.                                                        *)
(***************************************************************************)
KnownChoices == {<<>>, <<"A", "B">>}
PriorityChoices == {<<>>, <<"A">>}

\* the destination tree before the run: empty, or person A's folder already
\* holding x, x_10000 and x_10001 from earlier runs
Foreign == [data |-> 0, state |-> "intact"]
Crowded == [q \in {Path("A", Plain("x")), Path("A", Num("x", SuffixLimit)),
                   Path("A", Num("x", SuffixLimit + 1))} |-> Foreign]

\* the input files all have one basename (they lie in different folders of a
\* recursive enumeration), x or x_10000; the pairs are <<basename, destination
\* tree before the run>>
TreeChoices == {<<Plain("x"), EmptyFS>>, <<Num("x", SuffixLimit), Crowded>>}

\* cache entries are the tuples process_image_batch stores; Malformed is an
\* entry of another shape, which the unpacking at line 79 rejects
Negative == <<FALSE, None>>
Positive(person) == <<TRUE, person>>
Malformed == <<FALSE, None, None>>
EmptyCache == [h \in {} |-> Negative]
\* C is an identity an earlier run was enrolled with and this one is not
CacheChoices == {EmptyCache, (1 :> Positive("A")), (1 :> Positive("C")),
                 (1 :> Malformed)}

\* the faces the vision adapter may report for an image: near A only, near B
\* only, near nobody (one enrollment embedding each)
Far == MaxDist
RunFaces == {[A |-> <<3>>, B |-> <<Far>>], [A |-> <<Far>>, B |-> <<3>>],
             [A |-> <<Far>>, B |-> <<Far>>]}
ImageFaces == UNION {[1..k -> RunFaces] : k \in 1..MaxFaces}

\* use_children_settings keeps its default, True
tolerance_ == CHILDREN_TOLERANCE

\* what lines 164-224 can resolve an image to; the placement reads matched
\* and best_person of it
Resolved(face_encodings, names, tolerance, prio) ==
    LET r == ResolveImage(face_encodings, names, tolerance, prio)
    IN [matched |-> r.matched, best_person |-> r.best_person]

Resolutions ==
    [k \in KnownChoices, p \in PriorityChoices |->
        {Resolved(f, k, tolerance_, p) : f \in ImageFaces}]

PlaceEnvsUpTo ==
    [k \in 0..MaxFaults |->
        {e \in PlaceEnvs : Cardinality(e.faults \cup CopyHit(e)) <= k}]

ZeroStats == [total_images |-> 0, recognized |-> 0, unrecognized |-> 0,
              errors |-> 0, person_counts |-> [p \in {} |-> 0]]
NotReturned == [total_images |-> -1, recognized |-> -1, unrecognized |-> -1,
                errors |-> -1, person_counts |-> [p \in {} |-> 0]]

inputs == <<image_files, known_face_names, priority_list, move_files,
            batch_size, cache_dir>>
fsVars == <<srcFS, destFS, audit, placements, now>>
callVars == <<results, encoding_cache, new_cache_entries, valid_paths,
              valid_hashes, pos, raised>>

NoCall ==
    /\ results' = <<>>
    /\ encoding_cache' = EmptyCache
    /\ new_cache_entries' = 0
    /\ valid_paths' = <<>>
    /\ valid_hashes' = <<>>
    /\ pos' = 0
    /\ raised' = FALSE

Init ==
    /\ known_face_names \in KnownChoices
    /\ priority_list \in PriorityChoices
    /\ move_files \in BOOLEAN
    /\ batch_size \in 1..MaxBatchSize
    /\ \E n \in 0..MaxFiles, tree \in TreeChoices :
          /\ image_files = [i \in 1..n |-> Path(i, tree[1])]
          /\ srcFS = [q \in {Path(i, tree[1]) : i \in 1..n} |->
                         [data |-> q.dir, state |-> "intact"]]
          /\ destFS = tree[2]
    /\ cache_dir = TRUE           \* cli.py:181 always passes a cache directory
    /\ cache_file \in CacheChoices
    /\ audit = <<>>
    /\ file_ops_open = FALSE
    /\ placements = <<>>
    /\ now = 0
    /\ pc = "start"
    /\ stats = ZeroStats
    /\ batch_idx = 0
    /\ batch_data = <<>>
    /\ warned = FALSE
    /\ returned = NotReturned
    /\ results = <<>>
    /\ encoding_cache = EmptyCache
    /\ new_cache_entries = 0
    /\ valid_paths = <<>>
    /\ valid_hashes = <<>>
    /\ pos = 0
    /\ raised = FALSE
    /\ faults = 0
    /\ failures = {}
    /\ no_face = 0
    /\ cache_writes = 0
    /\ batched = <<>>
    /\ m_in = <<>>
    /\ m_out = <<>>

(***************************************************************************)
(* sort_images                                                             *)
(***************************************************************************)
num_batches == (Len(image_files) + batch_size - 1) \div batch_size
\* a batch that starts one file before the end of the batch before it
start_idx_overlapping == IF batch_idx = 0 THEN 0 ELSE batch_idx * batch_size - 1
start_idx == batch_idx * batch_size
end_idx == IF start_idx + batch_size < Len(image_files)
           THEN start_idx + batch_size ELSE Len(image_files)
batch_files == SubSeq(image_files, start_idx + 1, end_idx)

\* person_counts is a defaultdict(int)
Bump(counts, person) ==
    IF person \in DOMAIN counts THEN [counts EXCEPT ![person] = @ + 1]
    ELSE (person :> 1) @@ counts

\* a summary without the reconciliation of lines 658-663
Unreconciled(st) == st

\* lines 658-663
Reconciled(st) ==
    LET total_processed == st.recognized + st.unrecognized + st.errors
    IN IF total_processed # st.total_images
       THEN [st EXCEPT !.total_images = total_processed]
       ELSE st

\* lines 595-598 and 658-703: with statistics st the for loop moves to its
\* next batch; after the last one sort_images reconciles, reports, closes
\* the audit log and returns
\* a loop that goes on to the next batch without the counts of this one
NextBatchUnaggregated(st) ==
    IF batch_idx + 1 < num_batches
    THEN /\ pc' = "load"
         /\ batch_idx' = batch_idx + 1
         /\ stats' = stats
         /\ UNCHANGED <<warned, returned, file_ops_open>>
    ELSE /\ pc' = "done"
         /\ batch_idx' = batch_idx
         /\ warned' = (st.recognized + st.unrecognized + st.errors
                         # st.total_images)
         /\ stats' = Reconciled(st)
         /\ returned' = Reconciled(st)
         /\ file_ops_open' = FALSE

NextBatch(st) ==
    IF batch_idx + 1 < num_batches
    THEN /\ pc' = "load"
         /\ batch_idx' = batch_idx + 1
         /\ stats' = st
         /\ UNCHANGED <<warned, returned, file_ops_open>>
    ELSE /\ pc' = "done"
         /\ batch_idx' = batch_idx
         /\ warned' = (st.recognized + st.unrecognized + st.errors
                         # st.total_images)
         /\ stats' = Reconciled(st)
         /\ returned' = Reconciled(st)
         /\ file_ops_open' = FALSE

\* a start that does not test known_face_names (lines 517-525 left out)
StartRunUnchecked ==
    /\ pc = "start"
    /\ file_ops_open' = TRUE
    /\ IF Len(image_files) = 0
       THEN /\ returned' = ZeroStats
            /\ pc' = "done"
            /\ stats' = stats
       ELSE /\ stats' = [ZeroStats EXCEPT !.total_images = Len(image_files)]
            /\ pc' = "load"
            /\ returned' = returned
    /\ UNCHANGED <<inputs, fsVars, cache_file, batch_idx, batch_data, warned,
                   callVars, faults, failures, no_face, cache_writes, batched,
                   matchVars>>

\* lines 499-584: open the audit log, load the identities, enumerate
StartRun ==
    /\ pc = "start"
    /\ file_ops_open' = TRUE
    /\ IF Len(known_face_names) = 0 \/ Len(image_files) = 0
       THEN /\ returned' = ZeroStats
            /\ pc' = "done"
            /\ stats' = stats
       ELSE /\ stats' = [ZeroStats EXCEPT !.total_images = Len(image_files)]
            /\ pc' = "load"
            /\ returned' = returned
    /\ UNCHANGED <<inputs, fsVars, cache_file, batch_idx, batch_data, warned,
                   callVars, faults, failures, no_face, cache_writes, batched,
                   matchVars>>

\* a loading loop that dispatches the files it could not decode as well
LoadImagesKeepAll(decoded) ==
    [batch_data |-> batch_files,
     failed |-> Cardinality({i \in 1..Len(batch_files) : decoded[i] # "ok"})]

\* lines 608-625: decode the images of the batch; decoded[i] is what
\* resize_image_for_processing does for the i-th file: "ok", "none", "raise"
LoadImages(decoded) ==
    LET kept == {i \in 1..Len(batch_files) : decoded[i] = "ok"}
        RECURSIVE pick(_)
        pick(i) == IF i > Len(batch_files) THEN <<>>
                   ELSE IF i \in kept THEN <<batch_files[i]>> \o pick(i + 1)
                   ELSE pick(i + 1)
    IN [batch_data |-> pick(1), failed |-> Len(batch_files) - Cardinality(kept)]

LoadBatch ==
    /\ pc = "load"
    /\ \E decoded \in [1..Len(batch_files) -> {"ok", "none", "raise"}] :
          LET loaded == LoadImages(decoded) IN
          /\ faults + loaded.failed <= MaxFaults
          /\ faults' = faults + loaded.failed
          /\ failures' = failures \cup
                {<<"decode", batch_idx, i>> : i \in {j \in 1..Len(batch_files) :
                                                      decoded[j] # "ok"}}
          /\ batch_data' = loaded.batch_data
          /\ IF loaded.batch_data = <<>>
             THEN NextBatch([stats EXCEPT !.errors = @ + loaded.failed])
             ELSE /\ pc' = "submit"
                  /\ batch_idx' = batch_idx
                  /\ stats' = [stats EXCEPT !.errors = @ + loaded.failed]
                  /\ UNCHANGED <<warned, returned, file_ops_open>>
    /\ batched' = Append(batched, batch_files)
    /\ UNCHANGED <<inputs, fsVars, cache_file, callVars, no_face, cache_writes,
                   matchVars>>

\* an aggregation that counts a (False, None) as an error
CountFailuresAsErrors(st, result) ==
    IF result[1]
    THEN [st EXCEPT !.recognized = @ + 1,
                    !.person_counts = Bump(@, result[2])]
    ELSE [st EXCEPT !.errors = @ + 1]

\* one result of the batch, lines 640-647
Count(st, result) ==
    IF result[1]
    THEN [st EXCEPT !.recognized = @ + 1,
                    !.person_counts = Bump(@, result[2])]
    ELSE [st EXCEPT !.unrecognized = @ + 1]

\* line 640: zip stops at the shorter of batch_results and batch_data
Zipped(batch_results, dispatched) ==
    IF Len(batch_results) < dispatched THEN Len(batch_results) ELSE dispatched

\* lines 636-656: the results of the batch, or its exception
RECURSIVE CountAll(_, _, _)
CountAll(st, batch_results, k) ==
    IF k = 0 THEN st
    ELSE Count(CountAll(st, batch_results, k - 1), batch_results[k])

\* an except clause that counts one error for the whole batch
AggregatedOnce(st, batch_results, call_raised, dispatched, flush_raised_at) ==
    IF call_raised \/ flush_raised_at > 0
    THEN [CountAll(st, batch_results, flush_raised_at) EXCEPT !.errors = @ + 1]
    ELSE CountAll(st, batch_results, Zipped(batch_results, dispatched))

\* flush_raised_at is the iteration of the loop at which flush_logs raised
\* (logging.FileHandler.flush on a log file that cannot be written), 0 if it
\* did not: the except clause of line 653 receives that exception too
Aggregated(st, batch_results, call_raised, dispatched, flush_raised_at) ==
    IF call_raised THEN [st EXCEPT !.errors = @ + dispatched]
    ELSE IF flush_raised_at > 0
    THEN [CountAll(st, batch_results, flush_raised_at)
             EXCEPT !.errors = @ + dispatched]
    ELSE CountAll(st, batch_results, Zipped(batch_results, dispatched))

\* line 650
flush_due(start, batch_results) ==
    (start + Len(batch_results)) % FlushPeriod = 0

AggregateBatch ==
    /\ pc = "aggregate"
    /\ \E flush_raised_at \in 0..Zipped(results, Len(batch_data)) :
          /\ flush_raised_at > 0 =>
                ~raised /\ flush_due(start_idx, results) /\ faults < MaxFaults
          /\ faults' = IF flush_raised_at > 0 THEN faults + 1 ELSE faults
          /\ failures' = failures
          /\ NextBatch(Aggregated(stats, results, raised, Len(batch_data),
                                  flush_raised_at))
    /\ batch_data' = <<>>
    /\ NoCall
    /\ UNCHANGED <<inputs, fsVars, cache_file, no_face, cache_writes, batched, matchVars>>

(***************************************************************************)
(* process_image_batch, the call sort_images submits to its executor       *)
(***************************************************************************)
\* a cache read without the try of lines 52-58
LoadedCacheUnguarded(enabled, file, readable) ==
    IF enabled THEN file ELSE EmptyCache

\* lines 49-58: the cache read at the start of the call
LoadedCache(enabled, file, readable) ==
    IF enabled /\ readable THEN file ELSE EmptyCache

\* lines 128-133, 150-155, 394-399: the cache written at the end of the call
SavedCache(enabled, file, cache, entries, writable) ==
    IF enabled /\ entries > 0 /\ writable THEN cache ELSE file

\* lines 627-634 and 44-66
SubmitBatch ==
    /\ pc = "submit"
    /\ \E readable \in BOOLEAN :
          \* np.load is called, and can fail, only if the file exists
          /\ readable \/ (cache_dir /\ cache_file # EmptyCache /\ faults < MaxFaults)
          /\ faults' = IF readable THEN faults ELSE faults + 1
          /\ failures' = IF readable THEN failures
                         ELSE failures \cup {<<"cache_read", batch_idx, 0>>}
          /\ encoding_cache' = LoadedCache(cache_dir, cache_file, readable)
    /\ results' = <<>>
    /\ new_cache_entries' = 0
    /\ valid_paths' = <<>>
    /\ valid_hashes' = <<>>
    /\ raised' = FALSE
    /\ pos' = 1
    /\ pc' = "detect"
    /\ UNCHANGED <<inputs, fsVars, cache_file, file_ops_open, stats, batch_idx,
                   batch_data, warned, returned, no_face, cache_writes, batched, matchVars>>

\* the call returns (or raises) to line 637; failed counts the failures the
\* returning step ran into, vision names those of the vision adapter,
\* writable is whether np.savez_compressed succeeds
Return(batch_results, cache, entries, call_raised, failed, vision) ==
    /\ \E writable \in BOOLEAN :
          /\ writable \/ (cache_dir /\ entries > 0 /\ ~call_raised)
          /\ faults + failed + (IF writable THEN 0 ELSE 1) <= MaxFaults
          /\ faults' = faults + failed + (IF writable THEN 0 ELSE 1)
          /\ failures' = failures \cup vision \cup
                            (IF writable THEN {}
                             ELSE {<<"cache_write", batch_idx, 0>>}) \cup
                            (IF call_raised THEN {<<"call", batch_idx, 0>>}
                             ELSE {})
          /\ cache_writes' = IF ~call_raised /\ cache_dir /\ entries > 0 /\ writable
                             THEN cache_writes + 1 ELSE cache_writes
          /\ cache_file' = IF call_raised THEN cache_file
                           ELSE SavedCache(cache_dir, cache_file, cache, entries, writable)
    /\ UNCHANGED <<no_face, batched>>
    /\ results' = batch_results
    /\ raised' = call_raised
    /\ encoding_cache' = EmptyCache
    /\ new_cache_entries' = 0
    /\ valid_paths' = <<>>
    /\ valid_hashes' = <<>>
    /\ pos' = 0
    /\ pc' = "aggregate"

\* lines 68-123: one image of the first loop; detected is what
\* progressive_resize_and_detect and the size filter give: "faces", "none",
\* "raise"
DetectImage ==
    /\ pc = "detect"
    /\ LET img_path == batch_data[pos]
           img_hash == IF cache_dir THEN get_image_hash(srcFS, img_path) ELSE 0
           hashes == Append(valid_hashes, img_hash)
           hit == cache_dir /\ img_hash \in DOMAIN encoding_cache
           more == pos < Len(batch_data)
       IN IF hit /\ Len(encoding_cache[img_hash]) # 2
          THEN \* line 79 raises: the call ends
               /\ Return(<<>>, encoding_cache, 0, TRUE, 0, {})
          ELSE /\ \E detected \in {"faces", "none", "raise"} :
                    /\ hit => detected = "none"     \* a hit skips detection
                    /\ detected = "raise" => faults < MaxFaults
                    /\ faults' = IF detected = "raise" THEN faults + 1 ELSE faults
                    /\ failures' = IF detected = "raise"
                                   THEN failures \cup {<<"detect", batch_idx, pos>>}
                                   ELSE failures
                    /\ no_face' = IF ~hit /\ detected = "none"
                                  THEN no_face + 1 ELSE no_face
                    /\ UNCHANGED <<cache_writes, batched>>
                    /\ results' = IF hit THEN Append(results, encoding_cache[img_hash])
                                  ELSE IF detected = "faces" THEN results
                                  ELSE Append(results, Negative)
                    /\ valid_paths' = IF ~hit /\ detected = "faces"
                                      THEN Append(valid_paths, img_path)
                                      ELSE valid_paths
                    /\ encoding_cache' =
                           IF ~hit /\ detected = "none" /\ cache_dir /\ img_hash # 0
                           THEN Put(encoding_cache, img_hash, Negative)
                           ELSE encoding_cache
                    /\ new_cache_entries' =
                           IF ~hit /\ detected = "none" /\ cache_dir /\ img_hash # 0
                           THEN new_cache_entries + 1
                           ELSE new_cache_entries
               /\ valid_hashes' = hashes
               /\ pos' = IF more THEN pos + 1 ELSE 0
               /\ pc' = IF more THEN "detect" ELSE "encode"
               /\ UNCHANGED <<cache_file, raised>>
    /\ UNCHANGED <<inputs, fsVars, file_ops_open, stats, batch_idx, batch_data,
                   warned, returned, matchVars>>

\* lines 125-158: no image with faces, or face_encodings for all of them
EncodeBatch ==
    /\ pc = "encode"
    /\ IF valid_paths = <<>>
       THEN Return(results, encoding_cache, new_cache_entries, FALSE, 0, {})
       ELSE \E encoded \in BOOLEAN :
               IF encoded
               THEN /\ pc' = "recognize"
                    /\ pos' = 1
                    /\ UNCHANGED <<results, encoding_cache, new_cache_entries,
                                   valid_paths, valid_hashes, raised, cache_file,
                                   faults, failures, no_face, cache_writes, batched>>
               ELSE Return(results \o [i \in 1..Len(valid_paths) |-> Negative],
                           encoding_cache, new_cache_entries, FALSE, 1,
                           {<<"encode", batch_idx, IndexOf(batch_data, valid_paths[i])>> :
                               i \in 1..Len(valid_paths)})
    /\ UNCHANGED <<inputs, fsVars, file_ops_open, stats, batch_idx, batch_data,
                   warned, returned, matchVars>>

\* lines 389-391: one result per image of batch_data, at least
Padded(batch_results, n) ==
    IF Len(batch_results) < n
    THEN batch_results \o [i \in 1..(n - Len(batch_results)) |-> Negative]
    ELSE batch_results

\* lines 161-402: one image of the recognition loop and, after the last
\* one, the padding, the cache write and the return.  res is what lines
\* 164-224 resolve from the encodings face_encodings computed for the image
\* at line 142, env what the placement meets, t the clock.
RecognizeImage ==
    /\ pc = "recognize"
    /\ LET img_path == valid_paths[pos]
           hash == valid_hashes[pos]          \* valid_hashes[idx]
           more == pos < Len(valid_paths)
           Continue(batch_results, cache, entries, failed) ==
               IF more
               THEN /\ results' = batch_results
                    /\ encoding_cache' = cache
                    /\ new_cache_entries' = entries
                    /\ faults' = faults + failed
                    /\ failures' = failures
                    /\ UNCHANGED <<no_face, cache_writes, batched>>
                    /\ pos' = pos + 1
                    /\ pc' = "recognize"
                    /\ UNCHANGED <<valid_paths, valid_hashes, raised, cache_file>>
               ELSE Return(Padded(batch_results, Len(batch_data)), cache,
                           entries, FALSE, failed, {})
       IN \E res \in Resolutions[known_face_names, priority_list] :
             IF ~res.matched
             THEN /\ Continue(Append(results, Negative),
                              IF cache_dir /\ hash # 0
                              THEN Put(encoding_cache, hash, Negative)
                              ELSE encoding_cache,
                              IF cache_dir /\ hash # 0
                              THEN new_cache_entries + 1 ELSE new_cache_entries,
                              0)
                  /\ UNCHANGED fsVars
             ELSE \E env \in PlaceEnvsUpTo[MaxFaults - faults],
                     t \in now..(IF now < MaxTime THEN now + 1 ELSE now) :
                  LET wanted == Path(res.best_person, img_path.name)
                      destination == generate_unique_filename(destFS, wanted, t)
                      placed == PlaceFile(move_files, srcFS, destFS, img_path,
                                          destination, res.best_person, env)
                      cached == placed.cached /\ cache_dir /\ hash # 0
                  IN /\ UsesClock(destFS, wanted) \/ t = now
                     /\ EnvExact(env, placed)
                     /\ now' = t
                     /\ srcFS' = placed.sfs
                     /\ destFS' = placed.dfs
                     /\ audit' = audit \o placed.rows
                     /\ placements' = Append(placements,
                            [source |-> img_path, destination |-> destination,
                             person |-> res.best_person,
                             result |-> placed.result,
                             step |-> placed.step, env |-> env])
                     /\ Continue(Append(results, placed.result),
                                 IF cached
                                 THEN Put(encoding_cache, hash,
                                          Positive(res.best_person))
                                 ELSE encoding_cache,
                                 IF cached THEN new_cache_entries + 1
                                 ELSE new_cache_entries,
                                 Cardinality(placed.hit))
    /\ UNCHANGED <<inputs, file_ops_open, stats, batch_idx, batch_data, warned,
                   returned, matchVars>>

Next ==
    \/ StartRun
    \/ LoadBatch
    \/ SubmitBatch
    \/ DetectImage
    \/ EncodeBatch
    \/ RecognizeImage
    \/ AggregateBatch

Spec == Init /\ [][Next]_vars

(***************************************************************************)
(* find_best_match applied to drawn inputs.                                *)
(***************************************************************************)
\* the run's variables while the matcher alone is exercised
NoRun ==
    /\ image_files = <<>>
    /\ known_face_names = <<>>
    /\ priority_list = <<>>
    /\ move_files = FALSE
    /\ batch_size = 1
    /\ cache_dir = FALSE
    /\ srcFS = EmptyFS
    /\ destFS = EmptyFS
    /\ cache_file = EmptyCache
    /\ audit = <<>>
    /\ file_ops_open = FALSE
    /\ placements = <<>>
    /\ now = 0
    /\ stats = ZeroStats
    /\ batch_idx = 0
    /\ batch_data = <<>>
    /\ warned = FALSE
    /\ returned = NotReturned
    /\ results = <<>>
    /\ encoding_cache = EmptyCache
    /\ new_cache_entries = 0
    /\ valid_paths = <<>>
    /\ valid_hashes = <<>>
    /\ pos = 0
    /\ raised = FALSE
    /\ faults = 0
    /\ failures = {}
    /\ no_face = 0
    /\ cache_writes = 0
    /\ batched = <<>>

\* distances around the two tolerances; A has one enrollment embedding, B two
MatchDists == (CHILDREN_TOLERANCE - 1)..MaxDist
MatchEncodings == {[A |-> <<a>>, B |-> <<b1, b2>>] : a, b1, b2 \in MatchDists}
MatchNames == {<<>>, <<"A", "B">>, <<"B", "A">>}
MatchPriorities == {<<>>, <<"A">>, <<"B", "A">>, <<"C">>}
MatchTolerances == {CHILDREN_TOLERANCE, DEFAULT_TOLERANCE}

\* age_based_matching off; on with A born after the photo was taken; on with
\* A two years old in the photo; on with A fifteen years old in the photo
\* and an age tolerance of 3 (dates in years)
NoAge == [age_based_matching |-> FALSE, image_path |-> FALSE, photo_date |-> 0,
          birthdates |-> [q \in {} |-> 0], age_tolerance |-> 5]
AgeChoices == {NoAge,
               [age_based_matching |-> TRUE, image_path |-> TRUE, photo_date |-> 3,
                birthdates |-> ("A" :> 5), age_tolerance |-> 5],
               [age_based_matching |-> TRUE, image_path |-> TRUE, photo_date |-> 3,
                birthdates |-> ("A" :> 1), age_tolerance |-> 5],
               [age_based_matching |-> TRUE, image_path |-> TRUE, photo_date |-> 16,
                birthdates |-> ("A" :> 1), age_tolerance |-> 3]}

InitMatch ==
    /\ NoRun
    /\ pc = "match"
    /\ m_in \in [face_encoding : MatchEncodings, names : MatchNames,
                 tolerance : MatchTolerances, prio : MatchPriorities,
                 age : AgeChoices]
    /\ m_out = <<>>

ApplyMatch ==
    /\ pc = "match"
    /\ m_out' = find_best_match(m_in.face_encoding, m_in.names, m_in.tolerance,
                                m_in.prio, m_in.age)
    /\ pc' = "matched"
    /\ UNCHANGED <<inputs, fsVars, cache_file, file_ops_open, stats, batch_idx,
                   batch_data, warned, returned, callVars, faults, failures,
                   no_face, cache_writes, batched, m_in>>

\* lines 164-224 of sorting.py on an image that shows the same face, alone
\* or followed by a second face; the third element of m_out is the image's
\* faces and what the inline loop resolves them to
InlineImages == {<<m_in.face_encoding>>} \cup
                {<<m_in.face_encoding, f>> : f \in RunFaces}
ApplyInline ==
    /\ pc = "matched"
    /\ \E face_encodings \in InlineImages :
          m_out' = m_out \o
                   <<[face_encodings |-> face_encodings,
                      resolved |-> ResolveImage(face_encodings, m_in.names,
                                                m_in.tolerance, m_in.prio)]>>
    /\ pc' = "resolved"
    /\ UNCHANGED <<inputs, fsVars, cache_file, file_ops_open, stats, batch_idx,
                   batch_data, warned, returned, callVars, faults, failures,
                   no_face, cache_writes, batched, m_in>>

NextMatch == ApplyMatch \/ ApplyInline

SpecMatch == InitMatch /\ [][NextMatch]_vars

(***************************************************************************)
(* utils/caching.py: update_cache, save_cache and load_cache applied to    *)
(* drawn inputs.  m_out holds the cache in memory, the files on disk,      *)
(* what save_cache returned and what load_cache returned.                  *)
(***************************************************************************)
\* a cache file path: its directory part ("" for a bare file name) and
\* whether the name ends in .npz
CachePath(dir, npz) == [dir |-> dir, npz |-> npz]
CachePaths == {CachePath(d, z) : d \in {"", "cache"}, z \in BOOLEAN}
dirname(path) == path.dir

\* np.savez_compressed appends .npz to a file name that lacks it
NpzName(path) == [path EXCEPT !.npz = TRUE]

\* a file's content: an .npz archive of named arrays, or bytes np.load
\* cannot read (truncated, corrupt)
Archive(arrays) == [kind |-> "npz", arrays |-> arrays]
Corrupt == [kind |-> "bytes", arrays |-> [q \in {} |-> EmptyCache]]
NoFiles == [q \in {} |-> Corrupt]

\* lines 10-32; path is the cache_file argument
load_cache(files, path, default) ==
    IF ~exists(files, path) THEN default
    ELSE LET cache_data == files[path]
         IN IF cache_data.kind = "npz" /\ "cache" \in DOMAIN cache_data.arrays
            THEN cache_data.arrays["cache"]
            ELSE default

\* lines 34-54: <<returned, files>>; os.makedirs raises FileNotFoundError
\* for the empty directory name of a bare file name; writable is whether
\* np.savez_compressed succeeds
save_cache(files, path, cache, writable) ==
    IF dirname(path) = "" \/ ~writable THEN <<FALSE, files>>
    ELSE <<TRUE, (NpzName(path) :> Archive("cache" :> cache)) @@ files>>

\* lines 56-75; a hash of 0 is None
update_cache(images, cache, img_path, data, img_hash) ==
    LET h == IF img_hash = 0 THEN get_image_hash(images, img_path) ELSE img_hash
    IN IF h # 0 THEN (h :> data) @@ cache ELSE cache

\* the image the key is computed from when no hash is passed, and the
\* files that may be at or next to the cache path before the calls
CacheImage == Path(2, Plain("x"))
CacheImages == {EmptyFS, (CacheImage :> [data |-> 2, state |-> "intact"])}
OldContents == {Archive("cache" :> (1 :> Positive("B"))),
                Archive("other" :> EmptyCache), Corrupt}
OldFiles(path) ==
    {NoFiles} \cup {(q :> c) : q \in {path, NpzName(path)},
                               c \in OldContents}

InitCache ==
    /\ NoRun
    /\ pc = "cache"
    /\ m_in \in [cache_file : CachePaths,
                 cache : {EmptyCache, (1 :> Positive("A")), (3 :> Negative)},
                 images : CacheImages, img_hash : {0, 1, 2},
                 data : {Negative, Positive("A")}, writable : BOOLEAN]
    /\ \E files \in OldFiles(m_in.cache_file) :
          m_out = [cache |-> m_in.cache, files |-> files, saved |-> "no",
                   loaded |-> EmptyCache]

cacheRest == <<inputs, fsVars, cache_file, file_ops_open, stats, batch_idx,
               batch_data, warned, returned, callVars, faults, failures,
                   no_face, cache_writes, batched, m_in>>

ApplyUpdate ==
    /\ pc = "cache"
    /\ m_out' = [m_out EXCEPT !.cache = update_cache(m_in.images, m_out.cache,
                                          CacheImage, m_in.data, m_in.img_hash)]
    /\ pc' = "save"
    /\ UNCHANGED cacheRest

ApplySave ==
    /\ pc = "save"
    /\ LET r == save_cache(m_out.files, m_in.cache_file, m_out.cache, m_in.writable)
       IN m_out' = [m_out EXCEPT !.files = r[2],
                                 !.saved = IF r[1] THEN "True" ELSE "False"]
    /\ pc' = "load"
    /\ UNCHANGED cacheRest

\* load_cache after the save, or on the files as they were found
ApplyLoad ==
    /\ pc \in {"cache", "load"}
    /\ m_out' = [m_out EXCEPT !.loaded = load_cache(m_out.files, m_in.cache_file,
                                                     EmptyCache)]
    /\ pc' = "loaded"
    /\ UNCHANGED cacheRest

NextCache == ApplyUpdate \/ ApplySave \/ ApplyLoad

SpecCache == InitCache /\ [][NextCache]_vars

(***************************************************************************)
(* The cache files of two runs of sort_images, each with its own model and *)
(* cache directory.  m_in holds the arguments of the runs; m_out holds     *)
(* where each run is, the files it opened and who wrote each file.         *)
(***************************************************************************)
Runs == {"first", "second"}
Models == {"hog", "cnn", "hog_cnn"}
CacheDirs == {"cache", "cache2"}

\* os.path.join(cache_dir, name)
join(dir, name) == <<dir, name>>

\* a decision cache that has one name for all models
SharedDecisionCache(dir, model) == join(dir, "face_encodings_cache.npz")

\* sorting.py lines 53, 130, 152, 396
DecisionCacheFile(dir, model) ==
    join(dir, "face_encodings_cache_" \o model \o ".npz")

\* encoding.py line 44
KnownFacesCacheFile(dir, model) ==
    join(dir, "known_faces_cache_" \o model \o ".npz")

InitNames ==
    /\ NoRun
    /\ pc = "names"
    /\ m_in \in [model : [Runs -> Models], cache_dir : [Runs -> CacheDirs]]
    /\ m_out = [at |-> [r \in Runs |-> "start"],
                opened |-> [r \in Runs |-> {}],
                writer |-> [f \in {} |-> "first"]]

\* run r opens file for reading and, if written, for writing
Touch(r, file, to, written) ==
    m_out' = [at |-> [m_out.at EXCEPT ![r] = to],
              opened |-> [m_out.opened EXCEPT ![r] = @ \cup {file}],
              writer |-> IF written THEN (file :> r) @@ m_out.writer
                         ELSE m_out.writer]

\* encoding.py lines 39-50 and 210-215: load_known_faces reads its cache
\* and writes it back if it added entries
LoadKnownFaces(r) ==
    /\ m_out.at[r] = "start"
    /\ \E written \in BOOLEAN :
          Touch(r, KnownFacesCacheFile(m_in.cache_dir[r], m_in.model[r]),
                "batches", written)
    /\ UNCHANGED <<pc, cacheRest>>

\* sorting.py lines 49-58 and 393-399: one call of process_image_batch
\* reads the decision cache and writes it back if it added entries; last
\* says whether it was the run's last batch
ProcessBatch(r) ==
    /\ m_out.at[r] = "batches"
    /\ \E written \in BOOLEAN, last \in BOOLEAN :
          Touch(r, DecisionCacheFile(m_in.cache_dir[r], m_in.model[r]),
                IF last THEN "done" ELSE "batches", written)
    /\ UNCHANGED <<pc, cacheRest>>

NextNames == \E r \in Runs : LoadKnownFaces(r) \/ ProcessBatch(r)

SpecNames == InitNames /\ [][NextNames]_vars

(***************************************************************************)
(* Properties.                                                             *)
(***************************************************************************)
\* the step places a file; ThePlacement is that placement
Placing == Len(placements') = Len(placements) + 1
ThePlacement == placements'[Len(placements')]

\* sort_images went past its early returns
ReachedBatches == Len(known_face_names) > 0 /\ Len(image_files) > 0

Successful == {i \in DOMAIN placements : placements[i].result[1]}
Failed == {i \in DOMAIN placements : ~placements[i].result[1]}

\* the messages of a move that stops at lines 271-312
VerificationFailures ==
    {"Could not compute checksum for source file", "Failed to copy file",
     "Destination file does not exist after copy",
     "File size mismatch after copy", "Checksum verification failed"}

\* C1: in move mode a placement removes its source only when the destination
\* then exists with the size and the checksum the source had before the
\* copy; a placement that stops because the source checksum is unavailable,
\* the copy raises, the destination is missing, or the sizes or checksums
\* differ reports failure and leaves the source as it was.
C1_MoveStep ==
    (move_files /\ Placing) =>
        LET p == ThePlacement IN
        /\ ~exists(srcFS', p.source) =>
              /\ exists(destFS', p.destination)
              /\ getsize(destFS'[p.destination]) = getsize(srcFS[p.source])
              /\ md5(destFS'[p.destination]) = md5(srcFS[p.source])
        /\ p.step \in VerificationFailures =>
              /\ exists(srcFS', p.source)
              /\ srcFS'[p.source] = srcFS[p.source]
              /\ p.result = Negative
C1_SourceRemovedOnlyAfterVerifiedCopy == [][C1_MoveStep]_vars

\* a run that moved its first file and kept the second, whose copy failed
\* the checksum comparison
C1_Witness ==
    /\ move_files
    /\ Len(placements) = 2
    /\ placements[1].step = "Successfully moved"
    /\ ~exists(srcFS, placements[1].source)
    /\ placements[2].step = "Checksum verification failed"
    /\ exists(srcFS, placements[2].source)

\* C2: a placement reported successful left a destination with the size and
\* the checksum of its source, and a placement reported failed left no
\* partial or corrupt file at its destination path.
C2_PlacementStep ==
    Placing =>
        LET p == ThePlacement IN
        /\ p.result[1] =>
              /\ exists(destFS', p.destination)
              /\ getsize(destFS'[p.destination]) = getsize(srcFS[p.source])
              /\ md5(destFS'[p.destination]) = md5(srcFS[p.source])
        /\ ~p.result[1] =>
              (exists(destFS', p.destination) =>
                  destFS'[p.destination].state = "intact")
C2_VerifiedOrCleanedUp == [][C2_PlacementStep]_vars

\* C3: as long as no call of the run has failed, a placement never writes
\* to a path that already holds a file, a placement that finds its name
\* taken by an earlier one gets a numeric suffix, and no two successful
\* placements of the run have the same destination.
C3_PlacementStep ==
    (Placing /\ faults' = 0) =>
        LET p == ThePlacement IN
        /\ ~exists(destFS, p.destination)
        /\ (\E i \in Successful :
               placements[i].destination = Path(p.person, p.source.name)) =>
              p.destination.name.kind = "num"
        /\ p.result[1] =>
              \A i \in Successful : placements[i].destination # p.destination
C3_NoOverwrite == [][C3_PlacementStep]_vars

\* C4: the statistics sort_images returns satisfy total_images = recognized
\* + unrecognized + errors, at the early returns too; when the counters of a
\* run do not add up to the enumerated count the warning is logged and
\* total_images is the processed count.
C4_ReturnedTotalsAddUp ==
    pc = "done" =>
        /\ returned.total_images
             = returned.recognized + returned.unrecognized + returned.errors
        /\ ReachedBatches =>
             (warned <=> returned.recognized + returned.unrecognized
                           + returned.errors # Len(image_files))

\* a run whose counters exceeded the enumerated count
C4_Witness ==
    /\ pc = "done"
    /\ warned
    /\ returned.total_images = Len(image_files) + 1

\* C5: in a run that reached batch processing the counters recognized,
\* unrecognized and errors add up to the number of enumerated files (every
\* file is counted once).
C5_EveryFileCountedOnce ==
    (pc = "done" /\ ReachedBatches) =>
        returned.recognized + returned.unrecognized + returned.errors
          = Len(image_files)

\* C6: at the end of a run every file whose relocation failed is in the
\* errors counter and its original is still in place.
C6_FailedRelocationsAreErrors ==
    (pc = "done" /\ ReachedBatches) =>
        /\ returned.errors >= Cardinality(Failed)
        /\ \A i \in Failed : exists(srcFS, placements[i].source)

\* C7: when the call for a batch raised, the aggregation adds the number of
\* files dispatched to errors and nothing to the other counters, and the
\* loop goes on with the next batch if there is one; a run ends only after
\* its last batch.
C7_AggregateStep ==
    /\ (pc = "aggregate" /\ raised /\ pc' # "aggregate") =>
          /\ stats'.errors = stats.errors + Len(batch_data)
          /\ stats'.recognized = stats.recognized
          /\ stats'.unrecognized = stats.unrecognized
          /\ IF batch_idx + 1 < num_batches
             THEN pc' = "load" /\ batch_idx' = batch_idx + 1
             ELSE pc' = "done"
    /\ (pc' = "done" /\ ReachedBatches) => batch_idx' = num_batches - 1
C7_BatchExceptionCountsWholeBatch == [][C7_AggregateStep]_vars

\* a run of two batches of one file: the first call raised on the cache
\* entry of its file, the second placed its file
C7_Witness ==
    /\ pc = "done"
    /\ batch_size = 1
    /\ Len(image_files) = 2
    /\ 1 \in DOMAIN cache_file
    /\ cache_file[1] = Malformed
    /\ returned.errors = 1
    /\ returned.recognized = 1

\* the rows of the audit log for a source file
RowsOf(source) == {i \in DOMAIN audit : audit[i].source = source}

\* C8: every attempted placement has a row in the audit log; a successful
\* one has a SUCCESS row, a failed one has a FAILED row and no SUCCESS row.
C8_AuditRowsTellOutcome ==
    \A i \in DOMAIN placements :
        LET p == placements[i]
            rows == RowsOf(p.source)
        IN /\ rows # {}
           /\ p.result[1] => \E r \in rows : audit[r].status = "SUCCESS"
           /\ ~p.result[1] =>
                 /\ \E r \in rows : audit[r].status = "FAILED"
                 /\ \A r \in rows : audit[r].status # "SUCCESS"

\* C9: a placement during which log_file_operation raised has the result,
\* and leaves the files, that the same placement has when the audit writes
\* succeed.
C9_PlacementStep ==
    Placing =>
        LET p == ThePlacement
            quiet == [p.env EXCEPT !.faults = @ \ {"audit1", "audit2"}]
            calm == PlaceFile(move_files, srcFS, destFS, p.source, p.destination,
                              p.person, quiet)
        IN p.env.faults \cap {"audit1", "audit2"} # {} =>
              /\ p.result = calm.result
              /\ srcFS' = calm.sfs
              /\ destFS' = calm.dfs
C9_AuditFailureKeepsOutcome == [][C9_PlacementStep]_vars

\* C10 as stated: whatever priority list the caller supplies, find_best_match
\* returns None or a member of that list.
C10_ResultInPriorityList ==
    pc = "matched" => m_out[1] = None \/ m_out[1] \in Range(m_in.prio)

\* C10: for every non-empty priority list, find_best_match returns None or a
\* member of that list, whatever the confidences of the candidates.
C10_ResultInNonEmptyPriorityList ==
    (pc = "matched" /\ m_in.prio # <<>>) =>
        m_out[1] = None \/ m_out[1] \in Range(m_in.prio)

\* B is the closer candidate, both are within the tolerance, the list names
\* A only, and A is returned
C10_Witness ==
    /\ pc = "matched"
    /\ m_in.prio = <<"A">>
    /\ m_in.names = <<"A", "B">>
    /\ m_in.face_encoding = [A |-> <<5>>, B |-> <<4, 5>>]
    /\ m_out[1] = "A"

\* the identities find_best_match is asked about whose closest enrollment
\* embedding is within the tolerance
WithinTolerance ==
    {person \in Range(m_in.names) :
        \E i \in DOMAIN m_in.face_encoding[person] :
            m_in.face_encoding[person][i] <= m_in.tolerance}

\* lines 57-109 for the inputs drawn: found_persons before it is sorted
FoundByMatcher ==
    LET photo_date == IF m_in.age.age_based_matching /\ m_in.age.image_path
                         /\ DOMAIN m_in.age.birthdates # {}
                      THEN m_in.age.photo_date ELSE 0
    IN Candidates(m_in.face_encoding, m_in.names, m_in.tolerance, photo_date,
                  m_in.age)
NamesOf(found) == {found[i][1] : i \in DOMAIN found}

\* C11: with a priority list of which at least one candidate is a member,
\* find_best_match returns the candidate that comes first in the list,
\* whatever the confidences.
C11_FirstInPriorityListWins ==
    (pc = "matched" /\ WithinTolerance \cap Range(m_in.prio) # {}) =>
        LET first == Min({i \in DOMAIN m_in.prio : m_in.prio[i] \in WithinTolerance})
        IN m_out[1] = m_in.prio[first]

\* the list is B, A; both are candidates and A is the closer one; B is
\* returned
C11_Witness ==
    /\ pc = "matched"
    /\ m_in.prio = <<"B", "A">>
    /\ m_in.tolerance = DEFAULT_TOLERANCE
    /\ m_in.face_encoding = [A |-> <<4>>, B |-> <<6, 7>>]
    /\ m_in.age = NoAge
    /\ m_out = <<"B", Confidence(6)>>

\* C12: an identity is a candidate of find_best_match exactly if the minimum
\* distance to its enrollment embeddings is at most the tolerance; without a
\* priority list a match is returned exactly if there is such an identity.
C12_CandidateIffWithinTolerance ==
    pc = "matched" =>
        /\ NamesOf(FoundByMatcher) = WithinTolerance
        /\ m_in.prio = <<>> => (m_out[1] # None <=> WithinTolerance # {})

\* A's only distance equals the tolerance, B is farther: A is returned
C12_Witness ==
    /\ pc = "matched"
    /\ m_in.prio = <<>>
    /\ m_in.names = <<"A", "B">>
    /\ m_in.tolerance = CHILDREN_TOLERANCE
    /\ m_in.face_encoding = [A |-> <<CHILDREN_TOLERANCE>>, B |-> <<6, 7>>]
    /\ m_out[1] = "A"

\* position of an identity in known_face_names
EnrolledAt(person) == Min({i \in DOMAIN m_in.names : m_in.names[i] = person})

\* C13: without a priority list find_best_match returns a candidate of
\* maximum confidence and, of the candidates of that confidence, the one
\* enrolled first; with nobody enrolled, and with no candidate, it returns
\* (None, 0).
C13_MostConfidentFirstEnrolled ==
    (pc = "matched" /\ m_in.prio = <<>>) =>
        LET found == FoundByMatcher IN
        IF found = <<>> THEN m_out = <<None, 0>>
        ELSE /\ \E i \in DOMAIN found : found[i] = m_out
             /\ \A i \in DOMAIN found :
                   \/ found[i][2] < m_out[2]
                   \/ /\ found[i][2] = m_out[2]
                      /\ EnrolledAt(m_out[1]) <= EnrolledAt(found[i][1])

\* B is enrolled before A, both are equally close: B is returned
C13_Witness ==
    /\ pc = "matched"
    /\ m_in.prio = <<>>
    /\ m_in.names = <<"B", "A">>
    /\ m_in.tolerance = DEFAULT_TOLERANCE
    /\ m_in.face_encoding = [A |-> <<5>>, B |-> <<5, 6>>]
    /\ m_in.age = NoAge
    /\ m_out = <<"B", Confidence(5)>>

\* C14: the identities that are candidates with age_based_matching enabled
\* are those that are candidates with it disabled, and a match is returned
\* with the one exactly if it is with the other.
C14_AgeNeverDiscards ==
    pc = "matched" =>
        /\ NamesOf(FoundByMatcher) =
             NamesOf(Candidates(m_in.face_encoding, m_in.names, m_in.tolerance,
                                0, NoAge))
        /\ (m_out[1] = None) <=>
             (find_best_match(m_in.face_encoding, m_in.names, m_in.tolerance,
                              m_in.prio, NoAge)[1] = None)

\* A was born after the photo was taken: its confidence is halved and it is
\* still the match
C14_Witness ==
    /\ pc = "matched"
    /\ m_in.age.age_based_matching
    /\ m_in.age.birthdates["A"] > m_in.age.photo_date
    /\ m_in.names = <<"A", "B">>
    /\ m_in.prio = <<>>
    /\ m_in.face_encoding = [A |-> <<4>>, B |-> <<7, 7>>]
    /\ m_out = <<"A", Confidence(4) \div 2>>

\* C15: with age context, a candidate with a known birthdate has half its
\* confidence if its age at the photo date is outside the window of w years
\* around the expected age, and its full confidence if it is inside; w is
\* the age tolerance, plus 2 if the age is under 10.  The expected age is
\* that of the example, 8: with tolerance 3, age 15 is halved.
C15_HalvedOutsideWindow ==
    (pc = "matched" /\ m_in.age.age_based_matching) =>
        LET found == FoundByMatcher
            expected_age == 8
        IN \A i \in DOMAIN found :
              found[i][1] \in DOMAIN m_in.age.birthdates =>
                 LET person_age == m_in.age.photo_date
                                     - m_in.age.birthdates[found[i][1]]
                     w == IF person_age < 10 THEN m_in.age.age_tolerance + 2
                          ELSE m_in.age.age_tolerance
                     full == Confidence(Min(Range(m_in.face_encoding[found[i][1]])))
                 IN found[i][2] = IF expected_age - w <= person_age
                                     /\ person_age <= expected_age + w
                                  THEN full ELSE full \div 2

\* the key update_cache stores under, 0 if it stores nothing
StoredKey ==
    IF m_in.img_hash # 0 THEN m_in.img_hash
    ELSE get_image_hash(m_in.images, CacheImage)
RoundTrip == pc = "loaded" /\ m_out.saved # "no"

\* C16: for a valid key and entry and any cache file path, update_cache,
\* then save_cache, then load_cache of the same path gives a mapping in
\* which the key has the entry and every other entry of the cache is kept
\* (np.savez_compressed not failing).
C16_CacheRoundTrip ==
    (RoundTrip /\ StoredKey # 0 /\ m_in.writable) =>
        /\ StoredKey \in DOMAIN m_out.loaded
        /\ m_out.loaded[StoredKey] = m_in.data
        /\ \A k \in DOMAIN m_in.cache \ {StoredKey} :
              k \in DOMAIN m_out.loaded /\ m_out.loaded[k] = m_in.cache[k]

\* the cache calls of the current batch that failed
CacheReadFailed(f) == <<"cache_read", batch_idx, 0>> \in f
CacheWriteFailed(f) == <<"cache_write", batch_idx, 0>> \in f

\* C17: a cache file that is missing or that np.load cannot read (truncated,
\* corrupt) does not fail the run: the worker starts with an empty cache and
\* goes on to detection; a cache write that fails changes neither the file,
\* nor the statistics, and the call still returns, without raising, one
\* result for each file of the batch.
C17_CacheStep ==
    /\ (pc = "submit" /\ (cache_file = EmptyCache \/ CacheReadFailed(failures')))
          => (encoding_cache' = EmptyCache /\ pc' = "detect" /\ ~raised'
              /\ stats' = stats /\ returned' = returned)
    /\ (~CacheWriteFailed(failures) /\ CacheWriteFailed(failures'))
          => (cache_file' = cache_file /\ stats' = stats /\ returned' = returned)
    /\ (pc' = "aggregate" /\ pc # "aggregate"
        /\ (CacheReadFailed(failures') \/ CacheWriteFailed(failures')))
          => (~raised' /\ Len(results') = Len(batch_data))
C17_SaveWitness ==
    /\ pc = "done"
    /\ \E b \in 0..MaxFiles : <<"cache_write", b, 0>> \in failures
    /\ returned.errors = 0
    /\ returned.total_images = MaxFiles

\* a step of process_image_batch, the code the executor's threads run
WorkerStep == pc \in {"submit", "detect", "encode", "recognize"}

\* C18: the cache file and the audit log are written only by the
\* aggregation step of sort_images: no step of process_image_batch changes
\* either of them.
C18_WorkerStep == WorkerStep => (cache_file' = cache_file /\ audit' = audit)
C18_WorkersNeverWrite == [][C18_WorkerStep]_vars

\* C19: with no enrolled identity, sort_images returns right after its
\* start, with all four counters zero and no per-identity count, and no
\* input file has been entered in the totals, decoded, copied or moved.
C19_EmptyIdentitySetAborts ==
    (known_face_names = <<>> /\ pc # "start") =>
        /\ pc = "done"
        /\ returned = ZeroStats
        /\ stats = ZeroStats
        /\ batch_data = <<>> /\ results = <<>>
        /\ placements = <<>> /\ audit = <<>>
        /\ destFS \in {EmptyFS, Crowded}
        /\ \A i \in 1..Len(image_files) :
              /\ exists(srcFS, image_files[i])
              /\ srcFS[image_files[i]].state = "intact"
C19_Witness ==
    /\ known_face_names = <<>>
    /\ pc = "done"
    /\ Len(image_files) = MaxFiles
    /\ returned = ZeroStats

\* the files for which face detection or face encoding raised
VisionFailed == {f \in failures : f[1] \in {"detect", "encode"}}

\* C20: every file for which face detection or encoding raised is counted
\* in errors, not in unrecognized: at the end of a run the errors counter
\* is at least the number of such files, and unrecognized is at most the
\* number of the other files.
C20_VisionFailuresAreErrors ==
    pc = "done" =>
        /\ returned.errors >= Cardinality(VisionFailed)
        /\ returned.unrecognized <= Len(image_files) - Cardinality(VisionFailed)

\* the positions of batch_files whose decoding fails in the step
DecodeFailedNow ==
    {i \in 1..Len(batch_files) : <<"decode", batch_idx, i>> \in failures' \ failures}
RECURSIVE Without(_, _, _)
Without(s, drop, i) ==
    IF i > Len(s) THEN <<>>
    ELSE IF i \in drop THEN Without(s, drop, i + 1)
    ELSE <<s[i]>> \o Without(s, drop, i + 1)

\* C21: the loading step of a batch adds one error for each file it cannot
\* decode and nothing else to the counters; the batch it dispatches is the
\* batch's files without those, in order; if some file is left the batch is
\* submitted, otherwise nothing is submitted and the run goes on to the
\* next batch, or ends after the last.
C21_LoadStep ==
    pc = "load" =>
        /\ stats'.errors = stats.errors + Cardinality(DecodeFailedNow)
        /\ stats'.recognized = stats.recognized
        /\ stats'.unrecognized = stats.unrecognized
        /\ batch_data' = Without(batch_files, DecodeFailedNow, 1)
        /\ IF Cardinality(DecodeFailedNow) < Len(batch_files)
           THEN pc' = "submit" /\ batch_idx' = batch_idx
           ELSE IF batch_idx + 1 < num_batches
           THEN pc' = "load" /\ batch_idx' = batch_idx + 1
           ELSE pc' = "done"
C21_DecodeErrorsCountedOnce == [][C21_LoadStep]_vars
C21_Witness ==
    /\ pc = "done"
    /\ failures = {<<"decode", 0, 1>>}
    /\ batch_size = MaxBatchSize
    /\ Len(image_files) = MaxBatchSize
    /\ returned.errors = 1
    /\ returned.recognized = Len(image_files) - 1

\* C22: a move whose copy passed the existence, size and checksum checks and
\* whose os.remove of the original then fails gives the result (True,
\* person), keeps the verified copy at the destination, and is counted as
\* recognized for that person when the run ends.
C22_MoveStep ==
    (move_files /\ Placing
     /\ ThePlacement.step = "Original file could not be removed") =>
        LET p == ThePlacement IN
        /\ p.result = <<TRUE, p.person>>
        /\ \E i \in DOMAIN results' : results'[i] = <<TRUE, p.person>>
        /\ exists(srcFS', p.source)
        /\ exists(destFS', p.destination)
        /\ getsize(destFS'[p.destination]) = getsize(srcFS[p.source])
        /\ md5(destFS'[p.destination]) = md5(srcFS[p.source])
C22_EndOfRun ==
    (pc' = "done" /\ pc # "done" /\ Len(placements') = 1 /\ move_files
     /\ placements'[1].step = "Original file could not be removed"
     /\ faults' = 1) =>
        /\ returned'.recognized >= 1
        /\ placements'[1].person \in DOMAIN returned'.person_counts
        /\ returned'.person_counts[placements'[1].person] >= 1
C22_RemoveFailureStillSuccess == [][C22_MoveStep /\ C22_EndOfRun]_vars
C22_Witness ==
    /\ pc = "done"
    /\ move_files
    /\ Len(placements) = 1
    /\ placements[1].step = "Original file could not be removed"
    /\ "remove_src" \in placements[1].env.faults
    /\ exists(srcFS, placements[1].source)
    /\ exists(destFS, placements[1].destination)
    /\ returned.recognized = 1

DecodeFailed == {f \in failures : f[1] = "decode"}
CallRaised == {f \in failures : f[1] = "call"}

C24_AuditLogClosedOnReturn == pc = "done" => ~file_ops_open

\* C25: the cache file is not written once per file: a run over more than
\* one file writes the cache file fewer times than it has files, whatever
\* the batch size.
C25_CacheWritesNotPerFile ==
    (pc = "done" /\ Len(image_files) > 1) => cache_writes < Len(image_files)

\* C26: two runs with different models open no cache file in common, and
\* every cache file a run opens has the run's model in its name: it is the
\* decision cache or the enrollment cache of that model.
C26_ModelsShareNoCacheFile ==
    pc = "names" =>
        /\ \A r1, r2 \in Runs :
              m_in.model[r1] # m_in.model[r2] =>
                 m_out.opened[r1] \cap m_out.opened[r2] = {}
        /\ \A r \in Runs : \A f \in m_out.opened[r] :
              \E prefix \in {"face_encodings_cache_", "known_faces_cache_"} :
                 f[2] = prefix \o m_in.model[r] \o ".npz"
C26_Witness ==
    /\ pc = "names"
    /\ m_in.model["first"] # m_in.model["second"]
    /\ m_in.cache_dir["first"] = m_in.cache_dir["second"]
    /\ \A r \in Runs : m_out.at[r] = "done" /\ Cardinality(m_out.opened[r]) = 2
    /\ \A r \in Runs : \E f \in DOMAIN m_out.writer : m_out.writer[f] = r

\* C27: the path generate_unique_filename returns for a placement holds no
\* file when it returns, whatever the destination directory holds, also
\* when the name is the timestamp fallback.
C27_PlacementStep ==
    Placing =>
        LET p == ThePlacement
            wanted == Path(p.person, p.source.name)
        IN /\ p.destination = generate_unique_filename(destFS, wanted, now')
           /\ ~exists(destFS, p.destination)
C27_UniqueNameIsFree == [][C27_PlacementStep]_vars

RECURSIVE Flatten(_)
Flatten(ss) == IF ss = <<>> THEN <<>> ELSE Head(ss) \o Flatten(Tail(ss))

\* C28: the batches the loop goes through are contiguous pieces of the file
\* list in its order: each has between 1 and batch_size files, each but the
\* last has batch_size files, their concatenation is a prefix of the file
\* list at any time and the whole list when sort_images returns.
C28_BatchesPartitionFileList ==
    LET seen == Flatten(batched) IN
    /\ \A i \in DOMAIN batched :
          /\ 1 <= Len(batched[i]) /\ Len(batched[i]) <= batch_size
          /\ i < Len(batched) => Len(batched[i]) = batch_size
    /\ Len(seen) <= Len(image_files)
    /\ seen = SubSeq(image_files, 1, Len(seen))
    /\ (pc = "done" /\ ReachedBatches) => seen = image_files
C28_Witness ==
    /\ pc = "done"
    /\ Len(image_files) = MaxFiles
    /\ Len(batched) = MaxFiles
    /\ Flatten(batched) = image_files

\* the file a step of the detection or recognition loop works on, the
\* cache as the step leaves it (written to the file by the last step of the
\* call) and the keys whose entry the step set
StepFile == IF pc = "detect" THEN batch_data[pos] ELSE valid_paths[pos]
StepCache ==
    IF pc' # "aggregate" THEN encoding_cache'
    ELSE IF cache_file' # cache_file THEN cache_file' ELSE encoding_cache
StepEntries ==
    {h \in DOMAIN StepCache :
        h \notin DOMAIN encoding_cache \/ StepCache[h] # encoding_cache[h]}

\* C29: an entry that a step of process_image_batch puts in the cache is
\* under the fingerprint of the file the step works on and equals the
\* result the step appends for that file (in a run in which nothing fails).
C29_CacheStep ==
    (pc \in {"detect", "recognize"} /\ ~raised' /\ faults' = 0) =>
        \A h \in StepEntries :
           /\ h = get_image_hash(srcFS, StepFile)
           /\ StepCache[h] = results'[Len(results) + 1]
C29_EntriesUnderOwnFingerprint == [][C29_CacheStep]_vars

\* C30: a positive entry (True, person) that a step of the recognition loop
\* puts in the cache is under the fingerprint of a file of the batch that a
\* placement of this run copied or moved successfully for that person; the
\* fingerprint of a file whose placement failed gets none.
C30_CacheStep ==
    (pc = "recognize" /\ ~raised') =>
        \A h \in StepEntries :
           StepCache[h][1] =>
              \E k \in DOMAIN valid_hashes, i \in DOMAIN placements' :
                 /\ valid_hashes[k] = h
                 /\ placements'[i].source = batch_data[k]
                 /\ placements'[i].result = StepCache[h]
C30_PositiveEntryMeansPlaced == [][C30_CacheStep]_vars

\* the placements of the run that reported success for a person
PlacedFor(person) == {i \in Successful : placements[i].person = person}

\* C31: at the end of a run the files counted as recognized, in all and for
\* each person, are no more than the files the run copied or moved
\* successfully into that person's directory.
C31_RecognizedOnlyAfterPlacement ==
    pc = "done" =>
        /\ returned.recognized <= Cardinality(Successful)
        /\ \A person \in DOMAIN returned.person_counts :
              returned.person_counts[person] <= Cardinality(PlacedFor(person))

\* what the inline loop resolved and the image it resolved
Inline == m_out[3].resolved
SingleFace == Len(m_out[3].face_encodings) = 1

\* C32: for an image with a single face and age matching off, the identity
\* the inline loop of process_image_batch resolves is the one
\* find_best_match returns for the same embedding, names, tolerance and
\* priority list.
C32_InlineAgreesWithMatcher ==
    (pc = "resolved" /\ SingleFace /\ ~m_in.age.age_based_matching) =>
        Inline.best_person = m_out[1]

\* C33: a call that returns gives one result per image of batch_data, and
\* the result of an image stands at the image's own position: when the
\* recognition loop appends the result of the image it placed, the
\* position it appends at is the image's index in batch_data.
C33_ResultStep ==
    /\ (pc' = "aggregate" /\ pc # "aggregate" /\ ~raised')
          => Len(results') = Len(batch_data)
    /\ Placing
          => Len(results) + 1 = IndexOf(batch_data, ThePlacement.source)
C33_ResultsInInputOrder == [][C33_ResultStep]_vars

\* a process_image_batch call is executing
InCall == pc \in {"detect", "encode", "recognize"}
\* the files the statistics account for
Accounted(st) == st.recognized + st.unrecognized + st.errors

\* C34: batches are taken in list order, one at a time: the loop moves to
\* batch k+1 only from the step that aggregates batch k (or that found
\* nothing to decode in it), never while a call is executing, and by then
\* the statistics account for every file of batches 0..k; a batch is
\* decoded only when no call is executing and it is the next of the list.
C34_BatchStep ==
    /\ batch_idx' # batch_idx =>
          /\ batch_idx' = batch_idx + 1
          /\ ~InCall
          /\ pc = "aggregate" \/ (pc = "load" /\ batch_data' = <<>>)
          /\ pc' = "load"
          /\ Accounted(stats') >= (batch_idx + 1) * batch_size
    /\ Len(batched') # Len(batched) =>
          /\ ~InCall /\ results = <<>> /\ valid_paths = <<>>
          /\ Len(batched) = batch_idx
          /\ batched' = Append(batched, batch_files)
    /\ (InCall /\ pc' # pc) => pc' \in {"encode", "recognize", "aggregate"}
C35_AuditConfidenceIsWinners ==
    (pc = "resolved" /\ Inline.matched) =>
        Inline.highest_confidence = Inline.confidence

\* C36: generate_unique_filename ends after a bounded number of probes:
\* when the wanted name of a placement is taken, every numeric suffix it
\* tests is at most 10000, it tests at most 10000 of them, and it returns
\* a numbered name no higher than that or the timestamp name.
C36_PlacementStep ==
    Placing =>
        LET p == ThePlacement
            wanted == Path(p.person, p.source.name)
            probed == ProbedSuffixes(destFS, wanted.dir, wanted.name.base,
                                     start_suffix(wanted.name))
        IN exists(destFS, wanted) =>
              /\ Cardinality(probed) <= SuffixLimit
              /\ \A counter \in probed : counter <= SuffixLimit
              /\ \/ p.destination.name.kind = "ts"
                 \/ /\ p.destination.name.kind = "num"
                    /\ p.destination.name.n <= SuffixLimit
C36_ProbingBounded == [][C36_PlacementStep]_vars

\* the smallest suffix from `from` on that is free for the base name in the
\* directory (one of the first Cardinality(DOMAIN fs) + 1 is free)
SmallestFree(fs, directory, base_name, from) ==
    Min({m \in from..(from + Cardinality(DOMAIN fs)) :
            ~exists(fs, Path(directory, Num(base_name, m)))})

\* C37: when the wanted name of a placement is taken, the name returned is
\* base_m for the smallest free m above the name's own numeric suffix n
\* (the suffix is continued, none is stacked), or for the smallest free
\* m >= 1 when the name has no numeric suffix.
C37_PlacementStep ==
    Placing =>
        LET p == ThePlacement
            wanted == Path(p.person, p.source.name)
            n == IF wanted.name.kind = "num" THEN wanted.name.n ELSE 0
        IN exists(destFS, wanted) =>
              p.destination =
                  Path(wanted.dir,
                       Num(wanted.name.base,
                           SmallestFree(destFS, wanted.dir, wanted.name.base, n + 1)))
C37_SuffixContinued == [][C37_PlacementStep]_vars

\* the source tree as the run found it: every enumerated file, intact
OriginalSources ==
    [q \in Range(image_files) |-> [data |-> q.dir, state |-> "intact"]]

\* C38: in copy mode the source tree never changes: at any point of a run,
\* whatever succeeded or failed, every enumerated file exists with its
\* original content.
C38_CopyKeepsSources == ~move_files => srcFS = OriginalSources
C38_Witness ==
    /\ ~move_files
    /\ pc = "done"
    /\ Successful # {}
    /\ Failed # {}
    /\ srcFS = OriginalSources

RECURSIVE SumOf(_)
SumOf(counts) ==
    IF DOMAIN counts = {} THEN 0
    ELSE LET person == CHOOSE q \in DOMAIN counts : TRUE
         IN counts[person] + SumOf([q \in DOMAIN counts \ {person} |-> counts[q]])

\* C39: during a run and in the summary it returns, the counts of
\* person_counts add up to the recognized counter and every identity with
\* a nonzero count is one of known_face_names.
C39_PersonCountsOfEnrolled ==
    /\ pc \in {"load", "submit", "detect", "encode", "recognize", "aggregate"} =>
          /\ SumOf(stats.person_counts) = stats.recognized
          /\ \A person \in DOMAIN stats.person_counts :
                stats.person_counts[person] > 0 => person \in Range(known_face_names)
    /\ (pc = "done" /\ ReachedBatches) =>
          /\ SumOf(returned.person_counts) = returned.recognized
          /\ \A person \in DOMAIN returned.person_counts :
                returned.person_counts[person] > 0 => person \in Range(known_face_names)

====
